---- MODULE Spec2Model ----
(***************************************************************************)
(* Teamfight detection pipeline of the match-intelligence system:          *)
(*   timeline events -> parse_timeline -> build_window_features            *)
(*   -> run_dbscan_on_windows -> clusters_to_fights -> filter.             *)
(*                                                                         *)
(* The specifications share the variables:                                 *)
(*   SpecFeat   one match's timeline is parsed and windowed                *)
(*   SpecSeg    clusters_to_fights applied to a table of clustered windows *)
(*   SpecDetect detect_teamfights applied to a features table of 2 matches *)
(*   SpecSum    summarize_fights applied to a fights table and a cache     *)
(*   SpecCache  extract_features_from_cache applied to a cache of matches  *)
(*   SpecGet    one call of RiotClient._get (SpecGetLive adds fairness)    *)
(*   SpecPipe   one match from its timeline to its fight summaries         *)
(*                                                                         *)
(* Python None / NaN is the value Null.  Scores and weights are counted in *)
(* halves (3.0 is 6, 1.5 is 3, 43.5 is 87) so that they stay integers.     *)
(***************************************************************************)
EXTENDS Integers, Sequences, FiniteSets, TLC

VARIABLES
    pc,          \* position of the run
    impl,        \* which build_window_features ran: "feature_extractor" | "main"
    timeline,    \* raw timeline events of one match, in file order
    tables,      \* TimelineTables produced by parse_timeline
    feats,       \* WindowFeature table produced by build_window_features
    features,    \* features table read by detect_teamfights (all matches)
    clustered,   \* table with cluster_id (input of clusters_to_fights)
    max_gap,     \* max_gap_windows argument of the last clusters_to_fights call
    scoring,     \* FightScoringConfig of the last clusters_to_fights call
    fights,      \* segments returned by clusters_to_fights
    refights,    \* segments returned when `fights` is fed back in as windows
    fights2x,    \* segments returned under doubled weights
    detected,    \* rows written by detect_teamfights
    fights_csv,  \* rows of the fights table read by summarize_fights
    clip_cfg,    \* ClipWindowConfig of the last summarize_fights call
    summaries,   \* rows written by summarize_fights
    cache,       \* cached files of each match: timeline and match details
    out_dir,     \* per-match feature tables written by extract_features_from_cache
    combined,    \* combined features table written by extract_features_from_cache
    printed,     \* lines printed by extract_features_from_cache
    max_retries, \* max_retries argument of the running RiotClient._get call
    attempt,     \* loop variable of _get
    requests,    \* HTTP requests sent by the call so far
    responses,   \* responses received by the call so far, in order
    slept,       \* seconds handed to time.sleep by the call, in order
    result       \* how the call ended: what it returned or raised

vars == <<pc, impl, timeline, tables, feats, features, clustered, max_gap,
          scoring, fights, refights, fights2x, detected, fights_csv,
          clip_cfg, summaries, cache, out_dir, combined, printed,
          max_retries, attempt, requests, responses, slept, result>>

featVars == <<impl, timeline, tables, feats>>
segVars  == <<clustered, max_gap, scoring, fights, refights, fights2x>>
detVars  == <<features, detected>>
sumVars  == <<fights_csv, clip_cfg, summaries>>
cacheVars == <<cache, out_dir, combined, printed>>
httpVars == <<max_retries, attempt, requests, responses, slept, result>>

----------------------------------------------------------------------------
(* Bounds and input sets *)

MaxEvents == 3          \* events in a timeline
MaxRows == 3            \* rows of a clustered-windows table
MaxFeatRows == 4        \* rows of a features table

Null == -1              \* Python None / pandas NaN in an id column

window_seconds == 30

TimeStampsMs == {5000, 40000, 100000}
Matches == {"M1", "M2"}
ClusterIds == {-1, 0, 1}
GapChoices == {0, 1}

OBJECTIVE_TYPES == {"DRAGON", "BARON_NASHOR", "RIFTHERALD", "ATAKHAN"}

----------------------------------------------------------------------------
(* Generic helpers over sequences and sets *)

Min(S) == CHOOSE x \in S : \A y \in S : x <= y
Max(S) == CHOOSE x \in S : \A y \in S : x >= y

RECURSIVE SumOver(_, _)
SumOver(f, S) ==
    IF S = {} THEN 0
    ELSE LET x == CHOOSE y \in S : TRUE IN f[x] + SumOver(f, S \ {x})

\* sorted(set): the ascending sequence of the members of a set of integers
RECURSIVE SortedSeq(_)
SortedSeq(S) ==
    IF S = {} THEN <<>> ELSE <<Min(S)>> \o SortedSeq(S \ {Min(S)})

----------------------------------------------------------------------------
(* Timeline events (Match-V5 timeline JSON) *)

Event(ty, ts, k, v, a, m) ==
    [type |-> ty, timestamp |-> ts, killerId |-> k, victimId |-> v,
     assistingParticipantIds |-> a, monsterType |-> m]

\* <<killerId, victimId, assistingParticipantIds>> of the kills a timeline may hold
KillShapes ==
    { <<1, 2, <<3>>>>, <<1, 2, <<>>>>, <<2, 1, <<>>>>, <<2, 1, <<0, 4>>>>,
      <<0, 2, <<>>>>, <<0, Null, <<0>>>>, <<Null, 0, <<>>>> }

MonsterTypes == {"DRAGON", "BARON_NASHOR", "HORDE"}

TimelineEvents ==
    { Event("CHAMPION_KILL", ts, k[1], k[2], k[3], "") :
          ts \in TimeStampsMs, k \in KillShapes }
    \cup
    { Event("ELITE_MONSTER_KILL", ts, 0, Null, <<>>, m) :
          ts \in TimeStampsMs, m \in MonsterTypes }

----------------------------------------------------------------------------
(* timeline_parser.parse_timeline *)

\* (timestamp_s // 30) with timestamp_s = t_ms / 1000.0
window_30s(t_ms) == t_ms \div (1000 * 30)

kill_row(ev) ==
    [timestamp_ms |-> ev.timestamp,
     killerId     |-> ev.killerId,
     victimId     |-> ev.victimId,
     assists      |-> ev.assistingParticipantIds,
     window_30s   |-> window_30s(ev.timestamp),
     n_assists    |-> Len(ev.assistingParticipantIds)]

obj_row(ev) ==
    [timestamp_ms |-> ev.timestamp,
     monsterType  |-> ev.monsterType,
     window_30s   |-> window_30s(ev.timestamp)]

RECURSIVE kill_rows(_)
kill_rows(evs) ==
    IF evs = <<>> THEN <<>>
    ELSE (IF Head(evs).type = "CHAMPION_KILL" THEN <<kill_row(Head(evs))>> ELSE <<>>)
         \o kill_rows(Tail(evs))

RECURSIVE obj_rows(_)
obj_rows(evs) ==
    IF evs = <<>> THEN <<>>
    ELSE (IF /\ Head(evs).type = "ELITE_MONSTER_KILL"
             /\ Head(evs).monsterType \in OBJECTIVE_TYPES
          THEN <<obj_row(Head(evs))>> ELSE <<>>)
         \o obj_rows(Tail(evs))

parse_timeline(tl) == [kills |-> kill_rows(tl), objectives |-> obj_rows(tl)]

----------------------------------------------------------------------------
(* feature_extractor.build_window_features and its older copy in main.py *)

\* the rows of a table that fall in window w, in table order (one groupby group)
group(df, w) == SelectSeq(df, LAMBDA r : r.window_30s = w)

\* keys of df.groupby("window_30s")
group_keys(df) == {df[i].window_30s : i \in DOMAIN df}

valid_id(x) == x # Null /\ x # 0

\* ids collected from one kill row by feature_extractor.participants_in_window
row_ids(row) ==
    (IF valid_id(row.killerId) THEN {row.killerId} ELSE {})
    \cup (IF valid_id(row.victimId) THEN {row.victimId} ELSE {})
    \cup {row.assists[i] : i \in {j \in DOMAIN row.assists : valid_id(row.assists[j])}}

\* ids collected from one kill row by main.participants_in_window: as soon as
\* one assist id is valid, ids.update() adds every id of the assist list
main_row_ids(row) ==
    (IF valid_id(row.killerId) THEN {row.killerId} ELSE {})
    \cup (IF valid_id(row.victimId) THEN {row.victimId} ELSE {})
    \cup (IF \E j \in DOMAIN row.assists : valid_id(row.assists[j])
          THEN {row.assists[i] : i \in DOMAIN row.assists} ELSE {})

\* the set `ids` at the return of participants_in_window(sub)
participants_in_window(sub) == UNION {row_ids(sub[i]) : i \in DOMAIN sub}
main_participants_in_window(sub) == UNION {main_row_ids(sub[i]) : i \in DOMAIN sub}

ids_of(which, sub) ==
    IF which = "main" THEN main_participants_in_window(sub)
    ELSE participants_in_window(sub)

\* grouped_kills["killerId"].nunique(dropna=True)
unique_killers(sub) == Cardinality({sub[i].killerId : i \in DOMAIN sub} \ {Null})

\* grouped_kills["n_assists"].mean(), kept as an exact fraction
avg_assists(sub) ==
    [num |-> SumOver([i \in DOMAIN sub |-> sub[i].n_assists], DOMAIN sub),
     den |-> Len(sub)]

count_type(sub, m) == Len(SelectSeq(sub, LAMBDA r : r.monsterType = m))

\* the window indices the feature table is built on
base_windows(df_kills, df_obj) ==
    IF df_kills # <<>> THEN group_keys(df_kills)
    ELSE IF df_obj # <<>> THEN group_keys(df_obj)
    ELSE {}

\* one row of the returned table; a left merge that finds no group leaves NaN,
\* which fillna(0) turns into 0
feature_row(which, w, df_kills, df_obj) ==
    LET ks == group(df_kills, w)
        os == group(df_obj, w)
        hasK == ks # <<>>
    IN  [window_30s          |-> w,
         t_start_s           |-> w * 30,
         t_end_s             |-> w * 30 + 30,
         kill_count          |-> Len(ks),
         unique_participants |-> IF hasK THEN Cardinality(ids_of(which, ks)) ELSE 0,
         unique_killers      |-> IF hasK THEN unique_killers(ks) ELSE 0,
         avg_assists         |-> IF hasK THEN avg_assists(ks) ELSE [num |-> 0, den |-> 1],
         objective_count     |-> Len(os),
         dragon_count        |-> count_type(os, "DRAGON"),
         baron_count         |-> count_type(os, "BARON_NASHOR"),
         herald_count        |-> count_type(os, "RIFTHERALD"),
         atakhan_count       |-> count_type(os, "ATAKHAN")]

window_features(which, df_kills, df_obj) ==
    LET win_index == SortedSeq(base_windows(df_kills, df_obj))
    IN  [i \in DOMAIN win_index |-> feature_row(which, win_index[i], df_kills, df_obj)]

build_window_features(df_kills, df_obj) ==
    window_features("feature_extractor", df_kills, df_obj)

main_build_window_features(df_kills, df_obj) ==
    window_features("main", df_kills, df_obj)

----------------------------------------------------------------------------
(* teamfight_detector: scoring *)

\* FightScoringConfig(): the default weights 3.0, 1.5, 4.0, 6.0, 3.0, 2.0, 4.0
DefaultScoring ==
    [kill_weight |-> 6, participants_weight |-> 3, objective_weight |-> 8,
     baron_bonus |-> 12, dragon_bonus |-> 6, herald_bonus |-> 4, atakhan_bonus |-> 8]

\* another configuration: 0.5, 2.0, 1.0, 0.0, 2.5, 1.0, 0.5
AltScoring ==
    [kill_weight |-> 1, participants_weight |-> 4, objective_weight |-> 2,
     baron_bonus |-> 0, dragon_bonus |-> 5, herald_bonus |-> 2, atakhan_bonus |-> 1]

ScoringConfigs == {DefaultScoring, AltScoring}

\* float(row.get(c) or 0): a field the row lacks, or None, counts 0
get_or_0(row, c) ==
    IF c \notin DOMAIN row THEN 0
    ELSE IF row[c] = Null THEN 0 ELSE row[c]

\* variant: the participants weight is the literal 1.5, not the configured one
score_fixed_participants(row, s) ==
    s.objective_weight * get_or_0(row, "objective_count")
    + s.baron_bonus * get_or_0(row, "baron_count")
    + s.dragon_bonus * get_or_0(row, "dragon_count")
    + s.herald_bonus * get_or_0(row, "herald_count")
    + s.atakhan_bonus * get_or_0(row, "atakhan_count")
    + s.kill_weight * get_or_0(row, "kill_count")
    + 3 * get_or_0(row, "unique_participants")

\* variant: the baron bonus is left out
score_without_baron(row, s) ==
    s.objective_weight * get_or_0(row, "objective_count")
    + s.dragon_bonus * get_or_0(row, "dragon_count")
    + s.herald_bonus * get_or_0(row, "herald_count")
    + s.atakhan_bonus * get_or_0(row, "atakhan_count")
    + s.kill_weight * get_or_0(row, "kill_count")
    + s.participants_weight * get_or_0(row, "unique_participants")

score_window_row(row, s) ==
    LET obj_score ==
            s.objective_weight * get_or_0(row, "objective_count")
            + s.baron_bonus * get_or_0(row, "baron_count")
            + s.dragon_bonus * get_or_0(row, "dragon_count")
            + s.herald_bonus * get_or_0(row, "herald_count")
            + s.atakhan_bonus * get_or_0(row, "atakhan_count")
    IN  s.kill_weight * get_or_0(row, "kill_count")
        + s.participants_weight * get_or_0(row, "unique_participants")
        + obj_score

----------------------------------------------------------------------------
(* SpecFeat: one match's timeline is read, parsed and windowed *)

NoTables == [kills |-> <<>>, objectives |-> <<>>]

\* ClipWindowConfig(): the default margins around a fight
ClipWindowConfig == [pre_s |-> 8, post_s |-> 6]

\* matches a cache directory may hold files of
CacheMatches == {"M1", "M2", "M3"}

\* a cache directory with no file in it
NoFile == [state |-> "missing", events |-> <<>>]
EmptyCache == [m \in CacheMatches |-> [timeline |-> NoFile, match |-> FALSE]]

\* the combined features file before it is written
NoCsv == [written |-> FALSE, rows |-> <<>>]

InitCommon ==
    /\ impl = "none"
    /\ timeline = <<>>
    /\ tables = NoTables
    /\ feats = <<>>
    /\ features = <<>>
    /\ clustered = <<>>
    /\ max_gap = 1
    /\ scoring = DefaultScoring
    /\ fights = <<>>
    /\ refights = <<>>
    /\ fights2x = <<>>
    /\ detected = <<>>
    /\ fights_csv = <<>>
    /\ clip_cfg = ClipWindowConfig
    /\ summaries = <<>>
    /\ out_dir = <<>>
    /\ combined = NoCsv
    /\ printed = <<>>
    /\ max_retries = 5
    /\ attempt = 0
    /\ requests = 0
    /\ responses = <<>>
    /\ slept = <<>>
    /\ result = [kind |-> "none", detail |-> ""]

InitFeat == pc = "timeline" /\ cache = EmptyCache /\ InitCommon

\* the cached timeline holds one more event; events are in chronological order
AddEvent ==
    /\ pc = "timeline"
    /\ Len(timeline) < MaxEvents
    /\ \E ev \in TimelineEvents :
          /\ timeline # <<>> => timeline[Len(timeline)].timestamp <= ev.timestamp
          /\ timeline' = Append(timeline, ev)
    /\ UNCHANGED <<pc, impl, tables, feats, segVars, detVars, sumVars, cacheVars, httpVars>>

\* extract_features_from_cache, for the one match
ExtractFeatures ==
    /\ pc = "timeline"
    /\ tables' = parse_timeline(timeline)
    /\ feats' = build_window_features(tables'.kills, tables'.objectives)
    /\ impl' = "feature_extractor"
    /\ pc' = "features"
    /\ UNCHANGED <<timeline, segVars, detVars, sumVars, cacheVars, httpVars>>

\* main.main, for the one match
MainFeatures ==
    /\ pc = "timeline"
    /\ tables' = parse_timeline(timeline)
    /\ feats' = main_build_window_features(tables'.kills, tables'.objectives)
    /\ impl' = "main"
    /\ pc' = "features"
    /\ UNCHANGED <<timeline, segVars, detVars, sumVars, cacheVars, httpVars>>

NextFeat == AddEvent \/ ExtractFeatures \/ MainFeatures

SpecFeat == InitFeat /\ [][NextFeat]_vars

----------------------------------------------------------------------------
(* teamfight_detector.clusters_to_fights *)

\* lexicographic order of the match ids, as sort_values orders strings
match_rank(m) == IF m = "M1" THEN 1 ELSE 2

\* by=["match_id", "cluster_id", "t_start_s"]
window_before(a, b) ==
    \/ match_rank(a.match_id) < match_rank(b.match_id)
    \/ /\ a.match_id = b.match_id
       /\ \/ a.cluster_id < b.cluster_id
          \/ a.cluster_id = b.cluster_id /\ a.t_start_s < b.t_start_s

\* ["match_id", "fight_score"], ascending=[True, False]
fight_before(a, b) ==
    \/ match_rank(a.match_id) < match_rank(b.match_id)
    \/ a.match_id = b.match_id /\ a.fight_score > b.fight_score

\* order of the keys of groupby(["match_id", "cluster_id", "segment_id"])
key_before(a, b) ==
    \/ match_rank(a[1]) < match_rank(b[1])
    \/ /\ a[1] = b[1]
       /\ \/ a[2] < b[2]
          \/ a[2] = b[2] /\ a[3] < b[3]

before(by, a, b) ==
    IF by = "window" THEN window_before(a, b) ELSE fight_before(a, b)

\* DataFrame.sort_values on several columns is a stable sort: x goes behind
\* every row that does not come after it
RECURSIVE insert_sorted(_, _, _)
insert_sorted(x, s, by) ==
    IF s = <<>> THEN <<x>>
    ELSE IF before(by, x, Head(s)) THEN <<x>> \o s
    ELSE <<Head(s)>> \o insert_sorted(x, Tail(s), by)

RECURSIVE sort_values(_, _)
sort_values(s, by) ==
    IF s = <<>> THEN <<>>
    ELSE insert_sorted(s[Len(s)], sort_values(SubSeq(s, 1, Len(s) - 1), by), by)

same_group(a, b) == a.match_id = b.match_id /\ a.cluster_id = b.cluster_id

\* variant: a gap equal to the bound already splits
gap_at_least(gap, max_gap_s) == gap >= max_gap_s

\* gap > max_gap_s
gap_exceeds(gap, max_gap_s) == gap > max_gap_s

\* new_segment: first row of its group, or the gap to the previous row's end
\* is bigger than the max gap
new_segment(df, i, max_gap_s) ==
    \/ i = 1
    \/ ~same_group(df[i - 1], df[i])
    \/ gap_exceeds(df[i].t_start_s - df[i - 1].t_end_s, max_gap_s)

\* cumulative sum of the new_segment flags within the group, minus 1
RECURSIVE segment_id(_, _, _)
segment_id(df, i, max_gap_s) ==
    IF i = 1 \/ ~same_group(df[i - 1], df[i]) THEN 0
    ELSE segment_id(df, i - 1, max_gap_s)
         + (IF new_segment(df, i, max_gap_s) THEN 1 ELSE 0)

col(rows, idx, c) == {rows[i][c] : i \in idx}
col_sum(rows, idx, c) == SumOver([i \in idx |-> rows[i][c]], idx)

\* variant: the end is derived from the number of windows
fight_end_from_count(rows, idx) ==
    Min(col(rows, idx, "t_start_s")) + Cardinality(idx) * window_seconds

\* fight_end_s=("t_end_s", "max")
fight_end_s(rows, idx) == Max(col(rows, idx, "t_end_s"))

\* one row of grouped.agg(...), with duration_s
aggregate(rows, idx, key) ==
    LET start == Min(col(rows, idx, "t_start_s"))
        end   == fight_end_s(rows, idx)
    IN  [match_id          |-> key[1],
         cluster_id        |-> key[2],
         segment_id        |-> key[3],
         fight_start_s     |-> start,
         fight_end_s       |-> end,
         duration_s        |-> end - start,
         window_count      |-> Cardinality(idx),
         kills_total       |-> col_sum(rows, idx, "kill_count"),
         kills_peak        |-> Max(col(rows, idx, "kill_count")),
         participants_peak |-> Max(col(rows, idx, "unique_participants")),
         objectives_total  |-> col_sum(rows, idx, "objective_count"),
         barons_total      |-> col_sum(rows, idx, "baron_count"),
         dragons_total     |-> col_sum(rows, idx, "dragon_count"),
         heralds_total     |-> col_sum(rows, idx, "herald_count"),
         atakhans_total    |-> col_sum(rows, idx, "atakhan_count"),
         fight_score       |-> col_sum(rows, idx, "window_score")]

\* variant: noise rows are kept
keep_noise(df) == df

\* ignore noise
drop_noise(df) == SelectSeq(df, LAMBDA r : r.cluster_id >= 0)

clusters_to_fights(df_with_clusters, s, max_gap_windows) ==
    LET kept == drop_noise(df_with_clusters)
        scored == [i \in DOMAIN kept |->
                     [c \in DOMAIN kept[i] \cup {"window_score"} |->
                        IF c = "window_score" THEN score_window_row(kept[i], s)
                        ELSE kept[i][c]]]
        df == sort_values(scored, "window")
        max_gap_s == window_seconds * max_gap_windows
        key(i) == <<df[i].match_id, df[i].cluster_id, segment_id(df, i, max_gap_s)>>
        keys == {key(i) : i \in DOMAIN df}
        keyseq == [k \in 1 .. Cardinality(keys) |->
                     CHOOSE x \in keys :
                         Cardinality({y \in keys : key_before(y, x)}) = k - 1]
        agg == [k \in DOMAIN keyseq |->
                  aggregate(df, {i \in DOMAIN df : key(i) = keyseq[k]}, keyseq[k])]
    IN  sort_values(agg, "fight")

----------------------------------------------------------------------------
(* SpecSeg: clusters_to_fights applied to a table of clustered windows *)

feature_cols ==
    {"kill_count", "unique_participants", "avg_assists", "objective_count",
     "baron_count", "dragon_count", "herald_count", "atakhan_count"}

\* pd.to_numeric(work[c], errors="coerce").fillna(0) over the feature columns
fillna0(row) ==
    [c \in DOMAIN row \cup feature_cols |->
        IF c \in feature_cols THEN get_or_0(row, c) ELSE row[c]]

\* the two windows of the scoring scenario, as their cells are given
ScenarioW0 == [kill_count |-> 4, unique_participants |-> 7, baron_count |-> 1]
ScenarioW1 == [kill_count |-> 2, unique_participants |-> 6]
SegProfiles == {ScenarioW0, ScenarioW1}

\* a window row of match m at window index w
window_row(m, w, counts) ==
    [c \in DOMAIN counts \cup {"match_id", "t_start_s", "t_end_s"} |->
        IF c = "match_id" THEN m
        ELSE IF c = "t_start_s" THEN w * window_seconds
        ELSE IF c = "t_end_s" THEN w * window_seconds + window_seconds
        ELSE counts[c]]

with_cluster(row, cid) ==
    [c \in DOMAIN row \cup {"cluster_id"} |-> IF c = "cluster_id" THEN cid ELSE row[c]]

\* window indices that occur in the clustered table of a match
SegWindowIndices(m) == IF m = "M1" THEN {0, 1, 2, 4} ELSE {0}

\* row order of a features table: by match, then by window
slot_after(row, m, w) ==
    \/ match_rank(row.match_id) < match_rank(m)
    \/ row.match_id = m /\ row.t_start_s < w * window_seconds

InitSeg == pc = "clustered" /\ cache = EmptyCache /\ InitCommon

\* the clustered table holds one more window
AddClusteredWindow ==
    /\ pc = "clustered"
    /\ Len(clustered) < MaxRows
    /\ \E m \in Matches, p \in SegProfiles, cid \in ClusterIds :
         \E w \in SegWindowIndices(m) :
            /\ clustered # <<>> => slot_after(clustered[Len(clustered)], m, w)
            /\ clustered' = Append(clustered,
                                   with_cluster(window_row(m, w, fillna0(p)), cid))
    /\ UNCHANGED <<pc, max_gap, scoring, fights, refights, fights2x, featVars, detVars, sumVars, cacheVars, httpVars>>

ClustersToFights ==
    /\ pc = "clustered"
    /\ \E s \in ScoringConfigs, g \in GapChoices :
          /\ scoring' = s
          /\ max_gap' = g
          /\ fights' = clusters_to_fights(clustered, s, g)
    /\ pc' = "fights"
    /\ UNCHANGED <<clustered, refights, fights2x, featVars, detVars, sumVars, cacheVars, httpVars>>

\* a segment taken as one window that spans its whole duration
segment_as_window(f) ==
    [match_id |-> f.match_id, cluster_id |-> f.cluster_id,
     t_start_s |-> f.fight_start_s, t_end_s |-> f.fight_end_s,
     kill_count |-> f.kills_total, unique_participants |-> f.participants_peak,
     objective_count |-> f.objectives_total, baron_count |-> f.barons_total,
     dragon_count |-> f.dragons_total, herald_count |-> f.heralds_total,
     atakhan_count |-> f.atakhans_total]

\* clusters_to_fights run again on its own output
Resegment ==
    /\ pc = "fights"
    /\ refights' = clusters_to_fights(
                      [i \in DOMAIN fights |-> segment_as_window(fights[i])],
                      scoring, max_gap)
    /\ pc' = "refights"
    /\ UNCHANGED <<clustered, max_gap, scoring, fights, fights2x, featVars, detVars, sumVars, cacheVars, httpVars>>

double_weights(s) == [c \in DOMAIN s |-> 2 * s[c]]

\* clusters_to_fights run on the same table with every weight doubled
Rescore ==
    /\ pc = "fights"
    /\ fights2x' = clusters_to_fights(clustered, double_weights(scoring), max_gap)
    /\ pc' = "rescored"
    /\ UNCHANGED <<clustered, max_gap, scoring, fights, refights, featVars, detVars, sumVars, cacheVars, httpVars>>

NextSeg == AddClusteredWindow \/ ClustersToFights \/ Resegment \/ Rescore

SpecSeg == InitSeg /\ [][NextSeg]_vars

----------------------------------------------------------------------------
(* teamfight_detector.run_dbscan_on_windows *)

\* DBSCANConfig(): eps = 0.9 = eps_num / eps_den, min_samples = 2
eps_num == 9
eps_den == 10
min_samples == 2

\* feature_cols of detect_teamfights, in column order
feature_list ==
    <<"kill_count", "unique_participants", "avg_assists", "objective_count",
      "baron_count", "dragon_count", "herald_count", "atakhan_count">>

RECURSIVE GCD(_, _)
GCD(a, b) == IF b = 0 THEN a ELSE GCD(b, a % b)

\* n^2 times the population variance of column c: StandardScaler divides the
\* centred column by the square root of the variance, or by 1 when that is 0
n2_var(X, c) ==
    LET n  == Len(X)
        s1 == SumOver([i \in DOMAIN X |-> X[i][c]], DOMAIN X)
        s2 == SumOver([i \in DOMAIN X |-> X[i][c] * X[i][c]], DOMAIN X)
    IN  n * s2 - s1 * s1

\* squared euclidean distance of rows i and j of the scaled matrix, as the
\* reduced fraction <<p, q>>, summed over the columns from k on; V[k] is
\* n2_var of column k
RECURSIVE sq_dist(_, _, _, _, _)
sq_dist(X, V, i, j, k) ==
    IF k > Len(feature_list) THEN <<0, 1>>
    ELSE LET c    == feature_list[k]
             d    == X[i][c] - X[j][c]
             rest == sq_dist(X, V, i, j, k + 1)
         IN  IF d = 0 THEN rest
             ELSE LET a == d * d * Len(X) * Len(X)
                      p == rest[1] * V[k] + a * rest[2]
                      q == rest[2] * V[k]
                      g == GCD(p, q)
                  IN  <<p \div g, q \div g>>

\* radius_neighbors: the distance is at most eps
is_neighbor(dd) == dd[1] * eps_den * eps_den <= eps_num * eps_num * dd[2]

RECURSIVE neighborhoods_from(_, _, _)
neighborhoods_from(X, V, i) ==
    IF i > Len(X) THEN <<>>
    ELSE <<{j \in DOMAIN X : is_neighbor(sq_dist(X, V, i, j, 1))}>>
         \o neighborhoods_from(X, V, i + 1)

\* neighborhoods[i] of every row i, the row itself included
neighborhoods(X) ==
    neighborhoods_from(X, <<n2_var(X, feature_list[1]), n2_var(X, feature_list[2]),
                            n2_var(X, feature_list[3]), n2_var(X, feature_list[4]),
                            n2_var(X, feature_list[5]), n2_var(X, feature_list[6]),
                            n2_var(X, feature_list[7]), n2_var(X, feature_list[8])>>, 1)

core_samples(nb) == {i \in DOMAIN nb : Cardinality(nb[i]) >= min_samples}

\* the points a depth-first search from a seed labels: the seed, and every
\* still unlabelled neighbour of a core point it has labelled
RECURSIVE expand(_, _, _, _)
expand(nb, core, reached, free) ==
    LET more == (UNION {nb[u] : u \in reached \cap core}) \cap (free \ reached)
    IN  IF more = {} THEN reached ELSE expand(nb, core, reached \cup more, free)

\* DBSCAN.fit_predict: the rows are scanned in order; an unlabelled core row
\* seeds the next cluster
RECURSIVE dbscan_labels(_, _, _, _, _)
dbscan_labels(nb, core, i, labels, label_num) ==
    IF i > Len(nb) THEN labels
    ELSE IF labels[i] # -1 \/ i \notin core
         THEN dbscan_labels(nb, core, i + 1, labels, label_num)
         ELSE LET free == {j \in DOMAIN nb : labels[j] = -1}
                  cl   == expand(nb, core, {i}, free)
              IN  dbscan_labels(nb, core, i + 1,
                                [j \in DOMAIN nb |-> IF j \in cl THEN label_num ELSE labels[j]],
                                label_num + 1)

fit_predict(X) ==
    LET nb == neighborhoods(X)
    IN  dbscan_labels(nb, core_samples(nb), 1, [i \in DOMAIN X |-> -1], 0)

run_dbscan_on_windows(df) ==
    LET work   == [i \in DOMAIN df |-> fillna0(df[i])]
        labels == fit_predict(work)
    IN  [i \in DOMAIN work |-> with_cluster(work[i], labels[i])]

----------------------------------------------------------------------------
(* SpecDetect: detect_teamfights applied to a features table *)

\* the cells of the windows a features table may hold
TeamfightW == [kill_count |-> 4, unique_participants |-> 7, avg_assists |-> 1]
BrawlW     == [kill_count |-> 4, unique_participants |-> 6, avg_assists |-> 1]
SkirmishW  == [kill_count |-> 1, unique_participants |-> 2]
DragonW    == [objective_count |-> 1, dragon_count |-> 1]
DetectProfiles == {TeamfightW, BrawlW, SkirmishW, DragonW}

\* window indices that occur in the features table of a match
DetectWindowIndices(m) == IF m = "M1" THEN 0 .. 3 ELSE 0 .. 1

InitDetect == pc = "features_csv" /\ cache = EmptyCache /\ InitCommon

\* the features table holds one more window of one more match
AddFeatureRow ==
    /\ pc = "features_csv"
    /\ Len(features) < MaxFeatRows
    /\ \E m \in Matches, p \in DetectProfiles :
         \E w \in DetectWindowIndices(m) :
            /\ features # <<>> => slot_after(features[Len(features)], m, w)
            /\ features' = Append(features, window_row(m, w, p))
    /\ UNCHANGED <<pc, detected, segVars, featVars, sumVars, cacheVars, httpVars>>

\* variant: a fight needs more than 6 participants
keeps_above(f) == f.window_count >= 2 /\ f.participants_peak > 6

\* (fights["window_count"] >= 2) & (fights["participants_peak"] >= 6)
keeps(f) == f.window_count >= 2 /\ f.participants_peak >= 6

\* the rows that pass the filter, in table order
fight_filter(fs) == SelectSeq(fs, keeps)

\* detect_teamfights on a table with at least one row
DetectTeamfights ==
    /\ pc = "features_csv"
    /\ features # <<>>
    /\ clustered' = run_dbscan_on_windows(features)
    /\ fights' = clusters_to_fights(clustered', DefaultScoring, 1)
    /\ detected' = fight_filter(fights')
    /\ pc' = "detected"
    /\ UNCHANGED <<features, max_gap, scoring, refights, fights2x, featVars, sumVars, cacheVars, httpVars>>

\* detect_teamfights on a table without rows: StandardScaler.fit_transform
\* rejects an array of 0 samples and nothing is written
DetectRaises ==
    /\ pc = "features_csv"
    /\ features = <<>>
    /\ pc' = "error"
    /\ UNCHANGED <<features, detected, segVars, featVars, sumVars, cacheVars, httpVars>>

NextDetect == AddFeatureRow \/ DetectTeamfights \/ DetectRaises

SpecDetect == InitDetect /\ [][NextDetect]_vars

----------------------------------------------------------------------------
(* Claims about build_window_features, checked under SpecFeat *)

feat_windows == {feats[i].window_30s : i \in DOMAIN feats}

\* C1: the window indices of the returned table are the union of the window
\* indices of the kill table and of the objective table: a window holding only
\* objectives is there even when there are kills, and no other window is.
C1_WindowDomainIsUnion ==
    pc = "features" =>
        feat_windows = group_keys(tables.kills) \cup group_keys(tables.objectives)

\* C5: the participant set counted by unique_participants never holds the
\* sentinel id 0, wherever 0 occurs in the kills of the window.
C5_SentinelNeverCounted ==
    pc = "features" =>
        \A i \in DOMAIN feats :
            0 \notin ids_of(impl, group(tables.kills, feats[i].window_30s))

\* C6: in every window with at least one kill, unique_participants is at
\* least unique_killers.
C6_ParticipantsAtLeastKillers ==
    pc = "features" =>
        \A i \in DOMAIN feats :
            feats[i].kill_count >= 1 =>
                feats[i].unique_participants >= feats[i].unique_killers

----------------------------------------------------------------------------
(* Claims about clusters_to_fights and scoring, checked under SpecSeg *)

segmented == pc \in {"fights", "refights", "rescored"}

bound_s == window_seconds * max_gap

non_noise == {i \in DOMAIN clustered : clustered[i].cluster_id >= 0}

in_group(f, g) == f.match_id = g.match_id /\ f.cluster_id = g.cluster_id

\* the windows of the table that lie in segment f
windows_of(f) ==
    {i \in non_noise :
        /\ clustered[i].match_id = f.match_id
        /\ clustered[i].cluster_id = f.cluster_id
        /\ f.fight_start_s <= clustered[i].t_start_s
        /\ clustered[i].t_end_s <= f.fight_end_s}

\* C2: the segments of one (match_id, cluster_id) group are pairwise disjoint
\* in time, and each segment starts more than window_seconds * max_gap_windows
\* after the end of the segment before it.
C2_SegmentsDisjointAndSeparated ==
    segmented =>
        \A i, j \in DOMAIN fights :
            (i # j /\ in_group(fights[i], fights[j])) =>
                /\ \/ fights[i].fight_end_s <= fights[j].fight_start_s
                   \/ fights[j].fight_end_s <= fights[i].fight_start_s
                /\ fights[j].segment_id = fights[i].segment_id + 1 =>
                      fights[j].fight_start_s - fights[i].fight_end_s > bound_s

C2_Witness ==
    /\ pc = "fights"
    /\ \E i, j \in DOMAIN fights :
          /\ in_group(fights[i], fights[j])
          /\ fights[j].segment_id = fights[i].segment_id + 1
          /\ fights[i].window_count >= 2

\* two windows of one group with no window of the group between them
adjacent_in_group(i, j) ==
    /\ clustered[i].match_id = clustered[j].match_id
    /\ clustered[i].cluster_id = clustered[j].cluster_id
    /\ clustered[i].t_start_s < clustered[j].t_start_s
    /\ ~ \E k \in non_noise :
          /\ clustered[k].match_id = clustered[i].match_id
          /\ clustered[k].cluster_id = clustered[i].cluster_id
          /\ clustered[i].t_start_s < clustered[k].t_start_s
          /\ clustered[k].t_start_s < clustered[j].t_start_s

covered_by(i) == {k \in DOMAIN fights : i \in windows_of(fights[k])}

\* C3: noise windows are dropped; within a group, in order of t_start_s, a
\* window opens a new segment exactly when it is the first of the group or its
\* start lies more than window_seconds * max_gap_windows after the previous
\* window's end (a gap equal to the bound does not split); segment_id counts
\* 0, 1, 2, ... per group in time order.
C3_SegmentationRule ==
    segmented =>
        /\ \A k \in DOMAIN fights : fights[k].cluster_id >= 0
        /\ \A i \in non_noise : Cardinality(covered_by(i)) = 1
        /\ SumOver([k \in DOMAIN fights |-> fights[k].window_count], DOMAIN fights)
              = Cardinality(non_noise)
        /\ \A k \in DOMAIN fights :
              \E i \in non_noise :
                 /\ covered_by(i) = {k}
                 /\ clustered[i].t_start_s = fights[k].fight_start_s
        /\ \A i, j \in non_noise :
              adjacent_in_group(i, j) =>
                 ((covered_by(i) = covered_by(j))
                    <=> (clustered[j].t_start_s - clustered[i].t_end_s <= bound_s))
        /\ \A k \in DOMAIN fights :
              fights[k].segment_id =
                 Cardinality({l \in DOMAIN fights :
                                 /\ in_group(fights[l], fights[k])
                                 /\ fights[l].fight_start_s < fights[k].fight_start_s})

C3_Witness ==
    /\ pc = "fights"
    /\ \E i \in DOMAIN clustered : clustered[i].cluster_id = -1
    /\ \E i, j \in non_noise :
          /\ adjacent_in_group(i, j)
          /\ clustered[j].t_start_s - clustered[i].t_end_s = bound_s
          /\ bound_s > 0
          /\ covered_by(i) = covered_by(j)

span(f) == <<f.match_id, f.cluster_id, f.fight_start_s, f.fight_end_s>>

\* C7: clusters_to_fights run on its own segments, each taken as one window,
\* returns segments with the same start and end per group: none is merged and
\* none is split.
C7_SegmentationIdempotent ==
    pc = "refights" =>
        /\ Len(refights) = Len(fights)
        /\ {span(refights[i]) : i \in DOMAIN refights}
              = {span(fights[i]) : i \in DOMAIN fights}

C7_Witness ==
    /\ pc = "refights"
    /\ \E i, j \in DOMAIN fights :
          /\ i # j
          /\ in_group(fights[i], fights[j])
          /\ fights[i].window_count >= 2

is_scenario(f) ==
    /\ Cardinality(windows_of(f)) = 2
    /\ \E i, j \in windows_of(f) :
          /\ clustered[i] =
                with_cluster(window_row(f.match_id, clustered[i].t_start_s \div window_seconds,
                                        fillna0(ScenarioW0)), f.cluster_id)
          /\ clustered[j] =
                with_cluster(window_row(f.match_id, clustered[j].t_start_s \div window_seconds,
                                        fillna0(ScenarioW1)), f.cluster_id)
          /\ clustered[j].t_start_s = clustered[i].t_end_s
    /\ scoring = DefaultScoring

\* C8: fight_score is the sum of score_window_row over exactly the windows of
\* the segment, a count the row does not give scoring zero; the segment made of
\* the contiguous windows {kill_count 4, unique_participants 7, baron_count 1}
\* and {kill_count 2, unique_participants 6} has, under the default weights,
\* window_count 2, participants_peak 7, fight_score 43.5 (87 halves) and
\* passes the filter.
C8_SegmentScoreIsSum ==
    segmented =>
        \A k \in DOMAIN fights :
            /\ fights[k].fight_score =
                  SumOver([i \in windows_of(fights[k]) |->
                              scoring.kill_weight * clustered[i].kill_count
                              + scoring.participants_weight * clustered[i].unique_participants
                              + scoring.objective_weight * clustered[i].objective_count
                              + scoring.baron_bonus * clustered[i].baron_count
                              + scoring.dragon_bonus * clustered[i].dragon_count
                              + scoring.herald_bonus * clustered[i].herald_count
                              + scoring.atakhan_bonus * clustered[i].atakhan_count],
                          windows_of(fights[k]))
            /\ is_scenario(fights[k]) =>
                  /\ fights[k].window_count = 2
                  /\ fights[k].participants_peak = 7
                  /\ fights[k].fight_score = 87
                  /\ score_window_row(ScenarioW0, scoring) = 57
                  /\ score_window_row(ScenarioW1, scoring) = 30
                  /\ keeps(fights[k])

C8_Witness ==
    /\ pc = "fights"
    /\ \E k \in DOMAIN fights : is_scenario(fights[k])

ZeroWindow == fillna0([kill_count |-> 0])

key_of(f) == <<f.match_id, f.cluster_id, f.segment_id, f.fight_start_s, f.fight_end_s>>

\* C9: doubling all seven weights doubles the score of every window and the
\* fight_score of every segment; a window whose counts are all zero scores 0.
C9_ScoreLinearInWeights ==
    pc = "rescored" =>
        /\ \A i \in DOMAIN clustered :
              score_window_row(clustered[i], double_weights(scoring))
                 = 2 * score_window_row(clustered[i], scoring)
        /\ Len(fights2x) = Len(fights)
        /\ \A k \in DOMAIN fights :
              \E l \in DOMAIN fights2x :
                 /\ key_of(fights2x[l]) = key_of(fights[k])
                 /\ fights2x[l].fight_score = 2 * fights[k].fight_score
        /\ score_window_row(ZeroWindow, scoring) = 0
        /\ score_window_row(ZeroWindow, double_weights(scoring)) = 0

C9_Witness ==
    /\ pc = "rescored"
    /\ \E k \in DOMAIN fights : fights[k].fight_score > 0 /\ fights[k].window_count >= 2
    /\ scoring = AltScoring

----------------------------------------------------------------------------
(* Claims about detect_teamfights, checked under SpecDetect *)

\* the rows of match m, in table order
of_match(df, m) == SelectSeq(df, LAMBDA r : r.match_id = m)

\* what detect_teamfights computes from a features table
clustered_of(df) == run_dbscan_on_windows(df)
fights_of(df) == clusters_to_fights(clustered_of(df), DefaultScoring, 1)
detected_of(df) == fight_filter(fights_of(df))

extent(f) == <<f.fight_start_s, f.fight_end_s, f.window_count, f.fight_score>>
extents(fs) == {extent(fs[i]) : i \in DOMAIN fs}

\* two labellings of the same rows that agree up to the numbering of clusters
same_clustering(a, b) ==
    /\ Len(a) = Len(b)
    /\ \A i \in DOMAIN a : (a[i].cluster_id = -1) <=> (b[i].cluster_id = -1)
    /\ \A i, j \in DOMAIN a :
          (a[i].cluster_id = a[j].cluster_id) <=> (b[i].cluster_id = b[j].cluster_id)

\* C4: the cluster labels, the segments and the surviving fights of a match
\* are the same whether the features table holds that match alone or the
\* windows of other matches as well.
C4_MatchesIndependent ==
    pc = "detected" =>
        \A m \in Matches :
            of_match(features, m) # <<>> =>
                /\ same_clustering(of_match(clustered, m),
                                   clustered_of(of_match(features, m)))
                /\ extents(of_match(fights, m)) = extents(fights_of(of_match(features, m)))
                /\ extents(of_match(detected, m))
                      = extents(detected_of(of_match(features, m)))

\* C10: the written table holds a segment exactly when its window_count is at
\* least 2 and its participants_peak at least 6; every other segment is
\* dropped and nothing else is.
C10_FilterKeepsExactlyTeamfights ==
    pc = "detected" =>
        /\ \A k \in DOMAIN fights :
              (\E l \in DOMAIN detected : detected[l] = fights[k])
                 <=> (fights[k].window_count >= 2 /\ fights[k].participants_peak >= 6)
        /\ \A l \in DOMAIN detected : \E k \in DOMAIN fights : fights[k] = detected[l]
        /\ Len(detected) <= Len(fights)

C10_Witness ==
    /\ pc = "detected"
    /\ \E l \in DOMAIN detected : detected[l].participants_peak = 6
    /\ \E k \in DOMAIN fights :
          /\ fights[k].window_count >= 2
          /\ fights[k].participants_peak < 6
          /\ \A l \in DOMAIN detected : detected[l] # fights[k]

----------------------------------------------------------------------------
(* services/fight_summarizer *)

MaxBursts == 2          \* bursts of events in the summarized timeline

FightEvent(ty, ts, k, v, a, m, b) ==
    [type |-> ty, timestamp |-> ts, killerId |-> k, victimId |-> v,
     assistingParticipantIds |-> a, monsterType |-> m, buildingType |-> b]

Kill(ts, k, v, a) == FightEvent("CHAMPION_KILL", ts, k, v, a, "", "")

FightTimeStampsMs == {55000, 60000, 120000, 123000}

\* a team wiped by participants 1, 2 and 3
AceBlue(ts) ==
    << Kill(ts, 1, 6, <<2>>), Kill(ts, 1, 7, <<>>), Kill(ts, 2, 8, <<1, 3>>),
       Kill(ts, 1, 9, <<>>), Kill(ts, 3, 10, <<0>>) >>

\* the other team wiped in return
AceRed(ts) ==
    << Kill(ts, 7, 1, <<>>), Kill(ts, 6, 2, <<7>>), Kill(ts, 7, 3, <<>>),
       Kill(ts, 6, 4, <<8>>), Kill(ts, 9, 5, <<>>) >>

\* what a timeline may hold at one timestamp: a kill, an objective, an ace
EventBursts(ts) ==
    { <<Kill(ts, 1, 6, <<2>>)>>,
      <<Kill(ts, 2, 6, <<>>)>>,
      <<Kill(ts, 7, 8, <<0, 9>>)>>,
      <<Kill(ts, 0, Null, <<>>)>>,
      <<FightEvent("ELITE_MONSTER_KILL", ts, 1, Null, <<>>, "DRAGON", "")>>,
      <<FightEvent("BUILDING_KILL", ts, 2, Null, <<>>, "", "TOWER_BUILDING")>>,
      AceBlue(ts),
      AceRed(ts) }

\* info.participants of the match details: participantId, championName,
\* championId; "" and 0 stand for a missing name and a missing champion id
Participants ==
    << [participantId |-> 1, championName |-> "Ahri", championId |-> 103],
       [participantId |-> 2, championName |-> "Zed", championId |-> 238],
       [participantId |-> 3, championName |-> "", championId |-> 64],
       [participantId |-> 6, championName |-> "Lux", championId |-> 99],
       [participantId |-> 10, championName |-> "", championId |-> 0],
       [participantId |-> Null, championName |-> "Jinx", championId |-> 222] >>

\* p.get("championName") or p.get("championId") or "Unknown", as a string
champ(p) ==
    IF p.championName # "" THEN p.championName
    ELSE IF p.championId # 0 THEN ToString(p.championId)
    ELSE "Unknown"

\* _participant_champ_map: a later entry of the same id replaces an earlier one
participant_champ_map(parts) ==
    LET pids == {parts[i].participantId : i \in DOMAIN parts} \ {Null}
        last(pid) == Max({i \in DOMAIN parts : parts[i].participantId = pid})
    IN  [pid \in pids |-> champ(parts[last(pid)])]

\* dict.get(key, default)
dict_get(d, key, default) == IF key \in DOMAIN d THEN d[key] ELSE default

\* variant: the end of the range is left out
in_range_open(ts, t0_s, t1_s) == t0_s * 1000 <= ts /\ ts < t1_s * 1000

\* _iter_events_in_range: the events with t0_ms <= timestamp <= t1_ms
in_range(ts, t0_s, t1_s) == t0_s * 1000 <= ts /\ ts <= t1_s * 1000

\* variant: an event at the very start of the range is left out
iter_events_after_start(events, t0_s, t1_s) ==
    SelectSeq(events, LAMBDA ev : /\ ev.timestamp # Null
                                  /\ t0_s * 1000 < ev.timestamp
                                  /\ ev.timestamp <= t1_s * 1000)

iter_events_in_range(events, t0_s, t1_s) ==
    SelectSeq(events, LAMBDA ev : /\ ev.timestamp # Null
                                  /\ in_range(ev.timestamp, t0_s, t1_s))

\* isinstance(x, int) and x != 0
is_participant(x) == x # Null /\ x # 0

\* sep.join(names)
RECURSIVE join(_, _)
join(names, sep) ==
    IF names = <<>> THEN ""
    ELSE IF Len(names) = 1 THEN names[1]
    ELSE names[1] \o sep \o join(Tail(names), sep)

\* k_name of a counted killer
killer_name(pid_to_champ, killer) ==
    dict_get(pid_to_champ, killer, ToString(killer))

\* v_name of a victim, and the name of an assist
p_name(pid_to_champ, pid) ==
    dict_get(pid_to_champ, pid, "P" \o ToString(pid))

assist_ids(ev) == SelectSeq(ev.assistingParticipantIds, is_participant)

\* the feed line of one CHAMPION_KILL event
feed_line(ev, pid_to_champ) ==
    LET k_name == IF is_participant(ev.killerId)
                  THEN killer_name(pid_to_champ, ev.killerId) ELSE "Unknown"
        v_name == IF is_participant(ev.victimId)
                  THEN p_name(pid_to_champ, ev.victimId) ELSE "Unknown"
        ids == assist_ids(ev)
        a_names == [i \in DOMAIN ids |-> p_name(pid_to_champ, ids[i])]
    IN  IF a_names # <<>>
        THEN k_name \o " -> " \o v_name
             \o " (assists: " \o join(a_names, ", ") \o ")"
        ELSE k_name \o " -> " \o v_name

champion_kills(events) == SelectSeq(events, LAMBDA ev : ev.type = "CHAMPION_KILL")

\* kill_feed of _summarize_kills: one line per kill, in event order
kill_feed(events, pid_to_champ) ==
    LET kills == champion_kills(events)
    IN  [i \in DOMAIN kills |-> feed_line(kills[i], pid_to_champ)]

\* killer_counts of _summarize_kills: a dict, kept in insertion order
RECURSIVE killer_counts(_)
killer_counts(kills) ==
    IF kills = <<>> THEN <<>>
    ELSE LET counts == killer_counts(SubSeq(kills, 1, Len(kills) - 1))
             killer == kills[Len(kills)].killerId
         IN  IF ~is_participant(killer) THEN counts
             ELSE IF \E i \in DOMAIN counts : counts[i].pid = killer
             THEN [i \in DOMAIN counts |->
                      IF counts[i].pid = killer
                      THEN [counts[i] EXCEPT !.kills = @ + 1] ELSE counts[i]]
             ELSE Append(counts, [pid |-> killer, kills |-> 1])

\* ids added to `involved` by one kill
involved_of(ev) ==
    {x \in {ev.killerId, ev.victimId} : is_participant(x)}
    \cup {assist_ids(ev)[i] : i \in DOMAIN assist_ids(ev)}

\* involved of _summarize_kills
involved(kills) == UNION {involved_of(kills[i]) : i \in DOMAIN kills}

count_where(events, ty, field, value) ==
    Cardinality({i \in DOMAIN events :
                    events[i].type = ty /\ events[i][field] = value})

\* _summarize_objectives
summarize_objectives(events) ==
    [dragon  |-> count_where(events, "ELITE_MONSTER_KILL", "monsterType", "DRAGON"),
     baron   |-> count_where(events, "ELITE_MONSTER_KILL", "monsterType", "BARON_NASHOR"),
     herald  |-> count_where(events, "ELITE_MONSTER_KILL", "monsterType", "RIFTHERALD"),
     atakhan |-> count_where(events, "ELITE_MONSTER_KILL", "monsterType", "ATAKHAN"),
     tower   |-> count_where(events, "BUILDING_KILL", "buildingType", "TOWER_BUILDING"),
     inhib   |-> count_where(events, "BUILDING_KILL", "buildingType", "INHIBITOR_BUILDING")]

\* variant: a later killer with as many kills replaces the top killer
beats_or_ties(k, top_kills) == k >= top_kills

\* if k > top_kills
beats(k, top_kills) == k > top_kills

\* the loop over killer_counts.items(), from entry i on
RECURSIVE top_from(_, _, _)
top_from(counts, i, top) ==
    IF i > Len(counts) THEN top
    ELSE top_from(counts, i + 1,
                  IF beats(counts[i].kills, top.kills) THEN counts[i] ELSE top)

\* top_killer (None is Null) and top_kills
top_killer(counts) == top_from(counts, 1, [pid |-> Null, kills |-> 0])

\* variant: the clip starts pre_s before the fight, whatever the result
clip_start_unclamped(t0_s, cfg) == t0_s - cfg.pre_s

\* clip_start_s = max(0, fight_start_s - clip_cfg.pre_s)
clip_start_s(t0_s, cfg) == Max({0, t0_s - cfg.pre_s})

\* clip_end_s = fight_end_s + clip_cfg.post_s
clip_end_s(t1_s, cfg) == t1_s + cfg.post_s

\* if top_kills >= 3
multi_kill(top_kills) == top_kills >= 3

\* variant: towers and inhibitors make an objective fight as well
objective_fight_with_buildings(obj) ==
    obj.dragon + obj.baron + obj.herald + obj.atakhan + obj.tower + obj.inhib > 0

\* if obj["dragon"] + obj["baron"] + obj["herald"] + obj["atakhan"] > 0
objective_fight(obj) == obj.dragon + obj.baron + obj.herald + obj.atakhan > 0

\* ";".join(tags)
tags_of(top_kills, obj) ==
    join((IF multi_kill(top_kills) THEN <<"multi-kill">> ELSE <<>>)
         \o (IF objective_fight(obj) THEN <<"objective-fight">> ELSE <<>>), ";")

\* variant: the whole feed is written
uncapped(feed) == feed

\* kill_feed[:8]
capped(feed) == SubSeq(feed, 1, Min({8, Len(feed)}))

\* x or d, for an integer x
py_or(x, d) == IF x = 0 THEN d ELSE x

\* both files of the match are in the cache
has_files(c, match_id) ==
    c[match_id].match /\ c[match_id].timeline.state # "missing"

\* the row appended to rows_out for the fight f, its files being readable.
\* champs_involved is kept as the set of names that is sorted and joined.
summary_row(f, cfg, c) ==
    LET pid_to_champ == participant_champ_map(Participants)
        events == iter_events_in_range(c[f.match_id].timeline.events,
                                       f.fight_start_s, f.fight_end_s)
        kills  == champion_kills(events)
        feed   == kill_feed(events, pid_to_champ)
        ids    == involved(kills)
        obj    == summarize_objectives(events)
        top    == top_killer(killer_counts(kills))
    IN  [match_id       |-> f.match_id,
         cluster_id     |-> py_or(f.cluster_id, -1),
         segment_id     |-> py_or(f.segment_id, -1),
         fight_start_s  |-> f.fight_start_s,
         fight_end_s    |-> f.fight_end_s,
         clip_start_s   |-> clip_start_s(f.fight_start_s, cfg),
         clip_end_s     |-> clip_end_s(f.fight_end_s, cfg),
         kills_in_fight |-> Len(kills),
         participants_est |-> Cardinality(ids),
         top_killer_participantId |-> top.pid,
         top_killer_champ |-> IF top.pid # Null
                              THEN dict_get(pid_to_champ, top.pid, "Unknown")
                              ELSE "None",
         top_killer_kills |-> top.kills,
         obj_dragon     |-> obj.dragon,
         obj_baron      |-> obj.baron,
         obj_herald     |-> obj.herald,
         obj_atakhan    |-> obj.atakhan,
         obj_tower      |-> obj.tower,
         obj_inhib      |-> obj.inhib,
         champs_involved |-> {p_name(pid_to_champ, pid) : pid \in ids},
         kill_feed      |-> join(capped(feed), " | "),
         tags           |-> tags_of(top.kills, obj)]

\* rows_out after the loop over the fights, no file being unreadable
RECURSIVE summarize_rows(_, _, _)
summarize_rows(fs, cfg, c) ==
    IF fs = <<>> THEN <<>>
    ELSE (IF has_files(c, Head(fs).match_id)
          THEN <<summary_row(Head(fs), cfg, c)>> ELSE <<>>)
         \o summarize_rows(Tail(fs), cfg, c)

\* _load_json raises on some fight: both files exist, the timeline is no JSON
load_raises(fs, c) ==
    \E i \in DOMAIN fs : /\ has_files(c, fs[i].match_id)
                         /\ c[fs[i].match_id].timeline.state = "corrupt"

----------------------------------------------------------------------------
(* SpecSum: summarize_fights reads a fights table and the cache *)

\* M1 is cached in full, M2 lacks its match details, the timeline of M3 was
\* cut short while it was written
SumCache ==
    [m \in CacheMatches |->
        [timeline |-> [state |-> IF m = "M3" THEN "corrupt" ELSE "ok",
                       events |-> <<>>],
         match |-> m # "M2"]]

\* rows of a fights table: match_id, cluster_id, segment_id, start, end
FightRow(m, c, sg, t0, t1) ==
    [match_id |-> m, cluster_id |-> c, segment_id |-> sg,
     fight_start_s |-> t0, fight_end_s |-> t1]

FightRows ==
    { FightRow("M1", 0, 0, 0, 60), FightRow("M1", 1, 1, 60, 120),
      FightRow("M2", 0, 0, 0, 60), FightRow("M3", 1, 0, 60, 120) }

FightTables ==
    { <<f>> : f \in FightRows }
    \cup { t \in FightRows \X FightRows : t[1] # t[2] }

ClipConfigs == { ClipWindowConfig, [pre_s |-> 75, post_s |-> 0] }

InitSum == pc = "cache" /\ cache = SumCache /\ InitCommon

\* the timeline of M1 holds one more burst of events, in chronological order
AddBurst ==
    /\ pc = "cache"
    /\ LET tl == cache["M1"].timeline.events
       IN  \E ts \in FightTimeStampsMs : \E burst \in EventBursts(ts) :
              /\ Cardinality({tl[i].timestamp : i \in DOMAIN tl}) < MaxBursts
              /\ tl # <<>> => tl[Len(tl)].timestamp < ts
              /\ cache' = [cache EXCEPT !["M1"].timeline.events = tl \o burst]
    /\ UNCHANGED <<pc, sumVars, out_dir, combined, printed, featVars, segVars, detVars, httpVars>>

\* summarize_fights(fights_csv, clip_cfg=cfg), every file being readable
SummarizeFights ==
    /\ pc = "cache"
    /\ \E fs \in FightTables : \E cfg \in ClipConfigs :
          /\ ~load_raises(fs, cache)
          /\ fights_csv' = fs
          /\ clip_cfg' = cfg
          /\ summaries' = summarize_rows(fs, cfg, cache)
    /\ pc' = "summaries"
    /\ UNCHANGED <<cacheVars, featVars, segVars, detVars, httpVars>>

\* summarize_fights stops at the fight whose timeline cannot be loaded:
\* the exception leaves the loop and no summaries are written
SummarizeRaises ==
    /\ pc = "cache"
    /\ \E fs \in FightTables : \E cfg \in ClipConfigs :
          /\ load_raises(fs, cache)
          /\ fights_csv' = fs
          /\ clip_cfg' = cfg
    /\ pc' = "error"
    /\ UNCHANGED <<summaries, cacheVars, featVars, segVars, detVars, httpVars>>

NextSum == AddBurst \/ SummarizeFights \/ SummarizeRaises

SpecSum == InitSum /\ [][NextSum]_vars

----------------------------------------------------------------------------
(* Claims about summarize_fights, checked under SpecSum *)

\* the fights whose files are both cached, in table order: one row each
summarized == SelectSeq(fights_csv, LAMBDA f : has_files(cache, f.match_id))

\* the events of the fight's match from fight_start_s to fight_end_s, both
\* ends included, in event order
fight_events(f) ==
    SelectSeq(cache[f.match_id].timeline.events,
              LAMBDA ev : /\ f.fight_start_s * 1000 <= ev.timestamp
                          /\ ev.timestamp <= f.fight_end_s * 1000)

fight_kills(f) == SelectSeq(fight_events(f), LAMBDA ev : ev.type = "CHAMPION_KILL")

\* participants credited with a kill of the fight, their kill count and the
\* position of their first kill
killers_of(f) ==
    {fight_kills(f)[i].killerId : i \in DOMAIN fight_kills(f)} \ {0, Null}
kills_by(f, pid) ==
    Cardinality({i \in DOMAIN fight_kills(f) : fight_kills(f)[i].killerId = pid})
first_kill(f, pid) ==
    Min({i \in DOMAIN fight_kills(f) : fight_kills(f)[i].killerId = pid})

\* a summary was written, one row per summarized fight
written == pc = "summaries" /\ Len(summaries) = Len(summarized)

\* C11: the top killer of a row has the most kills among the kills of the
\* fight range; among the killers with that many kills it is the one whose
\* first kill comes first in event order; when no kill is credited to a
\* participant the id is -1 and the kill count 0.
C11_TopKillerFirstOfMaximal ==
    pc = "summaries" =>
        /\ Len(summaries) = Len(summarized)
        /\ \A i \in DOMAIN summaries :
              LET f == summarized[i]
                  top == summaries[i].top_killer_participantId
                  n == summaries[i].top_killer_kills
              IN  IF killers_of(f) = {} THEN top = -1 /\ n = 0
                  ELSE /\ top \in killers_of(f)
                       /\ n = kills_by(f, top)
                       /\ \A q \in killers_of(f) \ {top} :
                             \/ kills_by(f, q) < n
                             \/ /\ kills_by(f, q) = n
                                /\ first_kill(f, top) < first_kill(f, q)

\* a row whose top killer ties with a participant of lower id that killed
\* later, and a row of a fight in which nobody is credited with a kill
C11_Witness ==
    /\ written
    /\ \E i \in DOMAIN summaries :
          LET f == summarized[i]
              top == summaries[i].top_killer_participantId
          IN  \E q \in killers_of(f) :
                 /\ q < top
                 /\ kills_by(f, q) = kills_by(f, top)
                 /\ first_kill(f, top) < first_kill(f, q)
    /\ \E i \in DOMAIN summaries :
          /\ fight_kills(summarized[i]) # <<>>
          /\ summaries[i].top_killer_participantId = -1

\* the name of an id by the one rule: the mapped champion name, "P{id}" for
\* a non-zero id that is not mapped, "Unknown" for 0 and for a missing id
rendered(id) ==
    LET pid_to_champ == participant_champ_map(Participants)
    IN  IF id = 0 \/ id = Null THEN "Unknown"
        ELSE IF id \in DOMAIN pid_to_champ THEN pid_to_champ[id]
        ELSE "P" \o ToString(id)

\* the feed line of a kill with killer, victim and listed assists named by
\* the one rule
rendered_line(ev) ==
    LET ids == SelectSeq(ev.assistingParticipantIds,
                         LAMBDA a : a # 0 /\ a # Null)
        names == [i \in DOMAIN ids |-> rendered(ids[i])]
    IN  rendered(ev.killerId) \o " -> " \o rendered(ev.victimId)
        \o (IF names = <<>> THEN ""
            ELSE " (assists: " \o join(names, ", ") \o ")")

first_lines(lines, n) == SubSeq(lines, 1, IF Len(lines) < n THEN Len(lines) ELSE n)

\* C12: the kill feed of a row names the killer, the victim and the assists
\* of each kill by the same rule: the mapped champion name, "P{id}" for a
\* non-zero id missing from the map, "Unknown" for the id 0 or no id.
C12_FeedNamesByOneRule ==
    pc = "summaries" =>
        /\ Len(summaries) = Len(summarized)
        /\ \A i \in DOMAIN summaries :
              LET kills == fight_kills(summarized[i])
                  lines == [j \in DOMAIN kills |-> rendered_line(kills[j])]
              IN  summaries[i].kill_feed = join(first_lines(lines, 8), " | ")

\* non-sentinel participant ids of a list of kills
ids_in(kills) ==
    UNION { {kills[i].killerId, kills[i].victimId}
            \cup {kills[i].assistingParticipantIds[j] :
                     j \in DOMAIN kills[i].assistingParticipantIds}
            : i \in DOMAIN kills } \ {0, Null}

count_events(evs, ty) == Cardinality({i \in DOMAIN evs : evs[i].type = ty})

max_kills(f) ==
    IF killers_of(f) = {} THEN 0 ELSE Max({kills_by(f, q) : q \in killers_of(f)})

\* C13: a row is computed from exactly the events of its match whose
\* timestamp lies in [fight_start_s * 1000, fight_end_s * 1000], both ends
\* included: its kill count, participants, top kill count and objective
\* counts are those of these events, so an event that lies only in the
\* padded clip interval adds nothing.
C13_ExactlyEventsOfFightRange ==
    pc = "summaries" =>
        /\ Len(summaries) = Len(summarized)
        /\ \A i \in DOMAIN summaries :
              LET f == summarized[i]
                  r == summaries[i]
              IN  /\ r.kills_in_fight = Len(fight_kills(f))
                  /\ r.participants_est = Cardinality(ids_in(fight_kills(f)))
                  /\ r.top_killer_kills = max_kills(f)
                  /\ r.obj_dragon + r.obj_baron + r.obj_herald + r.obj_atakhan
                        = count_events(fight_events(f), "ELITE_MONSTER_KILL")
                  /\ r.obj_tower + r.obj_inhib
                        = count_events(fight_events(f), "BUILDING_KILL")

\* two fights of one match share a boundary second: the kill at that very
\* millisecond is counted by both rows, the kill within the padding after
\* the second fight by none
C13_Witness ==
    /\ written
    /\ Len(summaries) = 2
    /\ LET f == summarized[1]
           g == summarized[2]
           tl == cache[g.match_id].timeline.events
       IN  /\ f.match_id = g.match_id
           /\ f.fight_end_s = g.fight_start_s
           /\ \E a, b \in DOMAIN tl :
                 /\ tl[a].type = "CHAMPION_KILL" /\ tl[b].type = "CHAMPION_KILL"
                 /\ tl[a].timestamp = g.fight_start_s * 1000
                 /\ tl[b].timestamp > g.fight_end_s * 1000
                 /\ tl[b].timestamp <= summaries[2].clip_end_s * 1000
           /\ summaries[1].kills_in_fight = 1
           /\ summaries[2].kills_in_fight = 1

\* C14: kill_feed is the first 8 feed lines of the fight's kills, in event
\* order, and no more; kills_in_fight counts every kill of the fight range
\* and participants_est every distinct non-sentinel id of those kills, those
\* of the kills after the 8th included.
C14_FeedCappedCountsNot ==
    pc = "summaries" =>
        /\ Len(summaries) = Len(summarized)
        /\ \A i \in DOMAIN summaries :
              LET kills == fight_kills(summarized[i])
                  pid_to_champ == participant_champ_map(Participants)
                  lines == [j \in DOMAIN kills |-> feed_line(kills[j], pid_to_champ)]
              IN  /\ summaries[i].kill_feed = join(first_lines(lines, 8), " | ")
                  /\ summaries[i].kills_in_fight = Len(kills)
                  /\ summaries[i].participants_est = Cardinality(ids_in(kills))

\* a fight of more than 8 kills whose later kills bring in participants that
\* the first 8 do not name
C14_Witness ==
    /\ written
    /\ \E i \in DOMAIN summaries :
          LET kills == fight_kills(summarized[i])
          IN  /\ Len(kills) > 8
              /\ summaries[i].kills_in_fight = Len(kills)
              /\ summaries[i].participants_est
                    > Cardinality(ids_in(SubSeq(kills, 1, 8)))

\* the written tags string holds the tag t
has_tag(tags, t) == tags = t \/ tags = "multi-kill;objective-fight"

\* events of the fight range of one objective kind
elite_kills(f) ==
    {i \in DOMAIN fight_events(f) :
        /\ fight_events(f)[i].type = "ELITE_MONSTER_KILL"
        /\ fight_events(f)[i].monsterType \in OBJECTIVE_TYPES}
building_kills(f) ==
    {i \in DOMAIN fight_events(f) :
        /\ fight_events(f)[i].type = "BUILDING_KILL"
        /\ fight_events(f)[i].buildingType \in {"TOWER_BUILDING", "INHIBITOR_BUILDING"}}

\* C15 as stated: the tags hold "multi-kill" exactly when the top killer has
\* at least 3 kills, and "objective-fight" exactly when one of the objective
\* counts tallied for the fight range (dragon, baron, herald, atakhan, tower,
\* inhibitor) is above 0.
C15_TagsFromAnyObjectiveCount ==
    pc = "summaries" =>
        /\ Len(summaries) = Len(summarized)
        /\ \A i \in DOMAIN summaries :
              LET f == summarized[i]
                  r == summaries[i]
              IN  /\ has_tag(r.tags, "multi-kill") <=> max_kills(f) >= 3
                  /\ has_tag(r.tags, "objective-fight")
                        <=> \/ r.obj_dragon > 0 \/ r.obj_baron > 0
                            \/ r.obj_herald > 0 \/ r.obj_atakhan > 0
                            \/ r.obj_tower > 0 \/ r.obj_inhib > 0

\* C15 amended: the tags hold "multi-kill" exactly when the top killer has at
\* least 3 kills, and "objective-fight" exactly when the fight range holds a
\* dragon, baron, herald or atakhan kill; tower and inhibitor kills are
\* tallied but do not tag the fight.
C15_TagsFromEliteMonsterCounts ==
    pc = "summaries" =>
        /\ Len(summaries) = Len(summarized)
        /\ \A i \in DOMAIN summaries :
              LET f == summarized[i]
                  r == summaries[i]
              IN  /\ has_tag(r.tags, "multi-kill") <=> max_kills(f) >= 3
                  /\ has_tag(r.tags, "objective-fight") <=> elite_kills(f) # {}
                  /\ r.obj_tower + r.obj_inhib = Cardinality(building_kills(f))
                  /\ r.tags \in {"", "multi-kill", "objective-fight",
                                 "multi-kill;objective-fight"}

\* a tower falls in the second shared by two fights and a dragon later in
\* the second fight: the first row counts the tower and is not tagged, the
\* second is tagged for its dragon
C15_Witness ==
    /\ written
    /\ Len(summaries) = 2
    /\ summaries[1].obj_tower = 1
    /\ elite_kills(summarized[1]) = {}
    /\ ~has_tag(summaries[1].tags, "objective-fight")
    /\ summaries[2].obj_tower = 1
    /\ elite_kills(summarized[2]) # {}
    /\ has_tag(summaries[2].tags, "objective-fight")

\* C16: the clip of a row starts pre_s before the fight, but not before 0,
\* and ends post_s after it: clip_start_s is never negative and the clip
\* interval contains the fight interval.
C16_ClipContainsFight ==
    pc = "summaries" =>
        /\ Len(summaries) = Len(summarized)
        /\ \A i \in DOMAIN summaries :
              LET f == summarized[i]
                  r == summaries[i]
                  early == f.fight_start_s - clip_cfg.pre_s
              IN  /\ r.clip_start_s = (IF early < 0 THEN 0 ELSE early)
                  /\ r.clip_end_s = f.fight_end_s + clip_cfg.post_s
                  /\ r.clip_start_s >= 0
                  /\ r.clip_start_s <= f.fight_start_s
                  /\ f.fight_end_s <= r.clip_end_s

\* a fight that starts later than 0 but less than pre_s into the match: its
\* clip starts at 0; another row's clip starts pre_s before its fight
C16_Witness ==
    /\ written
    /\ \E i \in DOMAIN summaries :
          /\ summarized[i].fight_start_s > 0
          /\ summarized[i].fight_start_s < clip_cfg.pre_s
          /\ summaries[i].clip_start_s = 0
          /\ summaries[i].clip_end_s >= summarized[i].fight_end_s

\* C20: every written row carries the match_id, cluster_id, segment_id,
\* fight_start_s and fight_end_s of its fight unchanged, a cluster_id or a
\* segment_id of 0 included.
C20_IdentityColumnsUnchanged ==
    pc = "summaries" =>
        /\ Len(summaries) = Len(summarized)
        /\ \A i \in DOMAIN summaries :
              /\ summaries[i].match_id = summarized[i].match_id
              /\ summaries[i].cluster_id = summarized[i].cluster_id
              /\ summaries[i].segment_id = summarized[i].segment_id
              /\ summaries[i].fight_start_s = summarized[i].fight_start_s
              /\ summaries[i].fight_end_s = summarized[i].fight_end_s

----------------------------------------------------------------------------
(* Claim about run_dbscan_on_windows on few windows, checked under SpecDetect *)

\* C17: when the table passed to run_dbscan_on_windows holds fewer windows
\* than min_samples, no error is raised, every window gets cluster_id -1 and
\* clusters_to_fights returns no segment.
C17_FewWindowsAllNoise ==
    (pc \in {"detected", "error"} /\ Len(features) < min_samples) =>
        /\ pc = "detected"
        /\ Len(clustered) = Len(features)
        /\ \A i \in DOMAIN clustered : clustered[i].cluster_id = -1
        /\ fights = <<>>

----------------------------------------------------------------------------
(* feature_extractor.extract_features_from_cache *)

\* timelines a cached match may have: no kill or objective, one kill, two
\* kills in different windows
CachedTimelines ==
    { <<>>,
      <<Event("CHAMPION_KILL", 5000, 1, 2, <<3>>, "")>>,
      <<Event("CHAMPION_KILL", 5000, 1, 2, <<3>>, ""),
        Event("CHAMPION_KILL", 40000, 2, 1, <<>>, "")>> }

\* the match ids in the order of sorted(tl_dir.glob("*.json"))
SortedMatches == <<"M1", "M2", "M3">>

timeline_files(c) ==
    SelectSeq(SortedMatches, LAMBDA m : c[m].timeline.state # "missing")

\* variant: a match without match details is processed like any other
skips_never(c, m) == FALSE

\* if not match_path.exists()
skips(c, m) == ~c[m].match

\* load_json(tl_path) raises: the file does not hold JSON
load_fails(c, m) == c[m].timeline.state = "corrupt"

\* feats["match_id"] = match_id
with_match_id(row, m) ==
    [k \in DOMAIN row \cup {"match_id"} |-> IF k = "match_id" THEN m ELSE row[k]]

\* the tables of one match: parse_timeline, build_window_features, match_id
match_tables(c, m) ==
    LET tabs == parse_timeline(c[m].timeline.events)
        wf == build_window_features(tabs.kills, tabs.objectives)
    IN  [match_id |-> m,
         kills |-> tabs.kills,
         objectives |-> tabs.objectives,
         feats |-> [i \in DOMAIN wf |-> with_match_id(wf[i], m)]]

processed_line(t) ==
    "Processed " \o t.match_id \o ": windows=" \o ToString(Len(t.feats))
    \o " kills=" \o ToString(Len(t.kills))
    \o " objs=" \o ToString(Len(t.objectives))

\* the loop over the timeline files; it ends early when load_json raises
RECURSIVE feature_loop(_, _, _)
feature_loop(c, files, acc) ==
    IF files = <<>> THEN acc
    ELSE LET m == Head(files)
         IN  IF skips(c, m)
             THEN feature_loop(c, Tail(files),
                     [acc EXCEPT !.printed = Append(@,
                         "Skipping " \o m \o ": match details missing")])
             ELSE IF load_fails(c, m)
             THEN [acc EXCEPT !.raised = TRUE]
             ELSE LET t == match_tables(c, m)
                  IN  feature_loop(c, Tail(files),
                         [acc EXCEPT !.out = Append(@, t),
                                     !.printed = Append(@, processed_line(t))])

run_feature_loop(c) ==
    feature_loop(c, timeline_files(c), [out |-> <<>>, printed |-> <<>>, raised |-> FALSE])

\* pd.concat(all_features, ignore_index=True)
RECURSIVE concat(_)
concat(all_features) ==
    IF all_features = <<>> THEN <<>>
    ELSE Head(all_features).feats \o concat(Tail(all_features))

----------------------------------------------------------------------------
(* SpecCache: files are cached, then extract_features_from_cache runs *)

InitCache == pc = "cache" /\ cache = EmptyCache /\ InitCommon

\* JsonCache.set("timeline", m, payload)
CacheTimeline ==
    /\ pc = "cache"
    /\ \E m \in CacheMatches : \E tl \in CachedTimelines :
          /\ cache[m].timeline.state = "missing"
          /\ cache' = [cache EXCEPT ![m].timeline = [state |-> "ok", events |-> tl]]
    /\ UNCHANGED <<pc, out_dir, combined, printed, sumVars, featVars, segVars, detVars, httpVars>>

\* JsonCache.set("timeline", m, payload), the write being cut short: the
\* file exists and does not hold JSON
CacheTimelineCutShort ==
    /\ pc = "cache"
    /\ \E m \in CacheMatches :
          /\ cache[m].timeline.state = "missing"
          /\ cache' = [cache EXCEPT ![m].timeline = [state |-> "corrupt", events |-> <<>>]]
    /\ UNCHANGED <<pc, out_dir, combined, printed, sumVars, featVars, segVars, detVars, httpVars>>

\* JsonCache.set("match", m, payload)
CacheMatch ==
    /\ pc = "cache"
    /\ \E m \in CacheMatches :
          /\ ~cache[m].match
          /\ cache' = [cache EXCEPT ![m].match = TRUE]
    /\ UNCHANGED <<pc, out_dir, combined, printed, sumVars, featVars, segVars, detVars, httpVars>>

\* extract_features_from_cache returns: every file it loads is readable
ExtractFeaturesFromCache ==
    /\ pc = "cache"
    /\ timeline_files(cache) # <<>>
    /\ LET run == run_feature_loop(cache)
       IN  /\ ~run.raised
           /\ out_dir' = run.out
           /\ combined' = [written |-> TRUE, rows |-> concat(run.out)]
           /\ printed' = IF run.out # <<>>
                         THEN Append(run.printed, "Saved combined features")
                         ELSE run.printed
    /\ pc' = "features_csv"
    /\ UNCHANGED <<cache, sumVars, featVars, segVars, detVars, httpVars>>

\* extract_features_from_cache raises: there is no timeline (RuntimeError),
\* or load_json fails on a match; what was written before stays written,
\* the combined file is not written
ExtractRaises ==
    /\ pc = "cache"
    /\ LET run == run_feature_loop(cache)
       IN  /\ timeline_files(cache) = <<>> \/ run.raised
           /\ out_dir' = run.out
           /\ printed' = run.printed
    /\ pc' = "error"
    /\ UNCHANGED <<cache, combined, sumVars, featVars, segVars, detVars, httpVars>>

NextCache ==
    \/ CacheTimeline \/ CacheTimelineCutShort \/ CacheMatch
    \/ ExtractFeaturesFromCache \/ ExtractRaises

SpecCache == InitCache /\ [][NextCache]_vars

----------------------------------------------------------------------------
(* Claims about extract_features_from_cache, checked under SpecCache *)

\* both files of the match are cached
complete(m) == cache[m].match /\ cache[m].timeline.state # "missing"

\* the window features of the matches of ms, in the order of the match ids
RECURSIVE windows_of_matches(_)
windows_of_matches(ms) ==
    IF ms = <<>> THEN <<>>
    ELSE match_tables(cache, Head(ms)).feats \o windows_of_matches(Tail(ms))

\* C18: a match whose timeline is cached without its match details is
\* skipped and the other matches are processed: the combined table holds
\* the windows of exactly the matches that have both files, in file order,
\* wherever the incomplete matches stand.
C18_CombinedOfCompleteMatches ==
    pc = "features_csv" =>
        /\ combined.written
        /\ combined.rows = windows_of_matches(SelectSeq(SortedMatches, complete))
        /\ \A m \in CacheMatches :
              (\E i \in DOMAIN out_dir : out_dir[i].match_id = m) <=> complete(m)

\* the second of three matches lacks its match details and has kills in its
\* timeline: the combined table holds windows of the first and the third
C18_Witness ==
    /\ pc = "features_csv"
    /\ complete("M1") /\ complete("M3")
    /\ ~cache["M2"].match /\ cache["M2"].timeline.events # <<>>
    /\ \E i \in DOMAIN combined.rows : combined.rows[i].match_id = "M1"
    /\ \E i \in DOMAIN combined.rows : combined.rows[i].match_id = "M3"
    /\ \A i \in DOMAIN combined.rows : combined.rows[i].match_id # "M2"

\* C19: a failure on one match (its timeline cannot be parsed) does not end
\* the run: the other matches that have both files are processed and the
\* combined table is written.
C19_FailureDoesNotAbort ==
    (pc \in {"features_csv", "error"} /\ timeline_files(cache) # <<>>) =>
        /\ combined.written
        /\ \A m \in CacheMatches :
              (complete(m) /\ cache[m].timeline.state = "ok")
                  => \E i \in DOMAIN out_dir : out_dir[i].match_id = m

----------------------------------------------------------------------------
(* riot_client.RiotClient._get *)

MaxRetries == 3         \* largest max_retries a call is made with

\* the Retry-After header of a response: absent, or a string given by its
\* characters
NoHeader == [present |-> FALSE, chars |-> <<>>]
Header(chars) == [present |-> TRUE, chars |-> chars]

RetryAfterValues ==
    { NoHeader, Header(<<>>), Header(<<"3">>), Header(<<"1", "2">>),
      Header(<<"1", ".", "5">>) }

Statuses == {199, 200, 299, 300, 404, 429}

\* responses the server may give: only a 429 is read for its Retry-After
Responses ==
    { [status_code |-> st, retry_after |-> NoHeader] : st \in Statuses \ {429} }
    \cup { [status_code |-> 429, retry_after |-> h] : h \in RetryAfterValues }

Digits == <<"0", "1", "2", "3", "4", "5", "6", "7", "8", "9">>

\* str.isdigit(): not empty and made of digits
isdigit(chars) ==
    /\ chars # <<>>
    /\ \A i \in DOMAIN chars : \E d \in DOMAIN Digits : Digits[d] = chars[i]

\* int() of a digit string
RECURSIVE py_int(_)
py_int(chars) ==
    IF chars = <<>> THEN 0
    ELSE py_int(SubSeq(chars, 1, Len(chars) - 1)) * 10
         + (CHOOSE d \in DOMAIN Digits : Digits[d] = chars[Len(chars)]) - 1

\* 2**attempt
RECURSIVE pow2(_)
pow2(n) == IF n = 0 THEN 1 ELSE 2 * pow2(n - 1)

\* variant: the server's delay is not read
sleep_backoff_only(retry_after, n) == pow2(n)

\* sleep_s: int(retry_after) if retry_after and retry_after.isdigit(),
\* else 2**attempt
sleep_s(retry_after, n) ==
    IF retry_after.present /\ retry_after.chars # <<>> /\ isdigit(retry_after.chars)
    THEN py_int(retry_after.chars)
    ELSE pow2(n)

\* for attempt in range(max_retries): the loop has another turn
in_loop == pc = "get" /\ attempt < max_retries

----------------------------------------------------------------------------
(* SpecGet: one call of _get against a server that answers as it likes *)

InitGet == pc = "client" /\ cache = EmptyCache /\ InitCommon

\* self._get(url, max_retries=n) is called
CallGet ==
    /\ pc = "client"
    /\ \E n \in 0 .. MaxRetries : max_retries' = n
    /\ attempt' = 0
    /\ requests' = 0
    /\ responses' = <<>>
    /\ slept' = <<>>
    /\ pc' = "get"
    /\ UNCHANGED <<result, featVars, segVars, detVars, sumVars, cacheVars>>

\* requests.get answers 2xx: return r.json()
GetReturns ==
    /\ in_loop
    /\ \E r \in Responses :
          /\ 200 <= r.status_code /\ r.status_code < 300
          /\ responses' = Append(responses, r)
    /\ requests' = requests + 1
    /\ result' = [kind |-> "returned", detail |-> "body"]
    /\ pc' = "returned"
    /\ UNCHANGED <<max_retries, attempt, slept, featVars, segVars, detVars, sumVars, cacheVars>>

\* requests.get answers neither 429 nor 2xx: raise RuntimeError("HTTP ...")
GetHttpError ==
    /\ in_loop
    /\ \E r \in Responses :
          /\ r.status_code # 429
          /\ ~(200 <= r.status_code /\ r.status_code < 300)
          /\ responses' = Append(responses, r)
          /\ result' = [kind |-> "RuntimeError",
                        detail |-> "HTTP " \o ToString(r.status_code)]
    /\ requests' = requests + 1
    /\ pc' = "raised"
    /\ UNCHANGED <<max_retries, attempt, slept, featVars, segVars, detVars, sumVars, cacheVars>>

\* requests.get answers 429: time.sleep(sleep_s), continue
GetRateLimited ==
    /\ in_loop
    /\ \E r \in Responses :
          /\ r.status_code = 429
          /\ responses' = Append(responses, r)
          /\ slept' = Append(slept, sleep_s(r.retry_after, attempt))
    /\ requests' = requests + 1
    /\ attempt' = attempt + 1
    /\ UNCHANGED <<pc, max_retries, result, featVars, segVars, detVars, sumVars, cacheVars>>

\* requests.get raises (no answer within the timeout, no connection): the
\* exception leaves _get
GetFails ==
    /\ in_loop
    /\ requests' = requests + 1
    /\ result' = [kind |-> "RequestException", detail |-> ""]
    /\ pc' = "raised"
    /\ UNCHANGED <<max_retries, attempt, responses, slept, featVars, segVars, detVars, sumVars, cacheVars>>

\* the loop is used up: raise RuntimeError("Exceeded retries ...")
ExceededRetries ==
    /\ pc = "get"
    /\ ~(attempt < max_retries)
    /\ result' = [kind |-> "RuntimeError", detail |-> "Exceeded retries"]
    /\ pc' = "raised"
    /\ UNCHANGED <<max_retries, attempt, requests, responses, slept, featVars, segVars, detVars, sumVars, cacheVars>>

NextGet ==
    \/ CallGet \/ GetReturns \/ GetHttpError \/ GetRateLimited
    \/ GetFails \/ ExceededRetries

SpecGet == InitGet /\ [][NextGet]_vars

\* the call runs on one thread: requests.get answers or raises within its
\* timeout and time.sleep returns, so a step that can be taken is taken
SpecGetLive == SpecGet /\ WF_vars(NextGet)

----------------------------------------------------------------------------
(* Claim about RiotClient._get, checked under SpecGetLive *)

is_2xx(r) == 200 <= r.status_code /\ r.status_code < 300

\* the header is a string of one or more of the digits 0 to 9
digit_string(h) ==
    /\ h.present
    /\ Len(h.chars) >= 1
    /\ \A i \in DOMAIN h.chars :
          h.chars[i] \in {"0", "1", "2", "3", "4", "5", "6", "7", "8", "9"}

\* the wait after the i-th response, a 429: the server's seconds, or 2 to
\* the power of the attempt number, which counts from 0
wait_after(i) ==
    IF digit_string(responses[i].retry_after)
    THEN py_int(responses[i].retry_after.chars)
    ELSE pow2(i - 1)

ended == pc \in {"returned", "raised"}

\* what holds of a call at every moment
get_invariant ==
    pc \in {"get", "returned", "raised"} =>
        /\ requests <= max_retries
        /\ Len(responses) <= requests
        /\ \A i \in 1 .. Len(responses) - 1 : responses[i].status_code = 429
        /\ LET limited == {i \in DOMAIN responses : responses[i].status_code = 429}
           IN  /\ Len(slept) = Cardinality(limited)
               /\ \A i \in limited : slept[i] = wait_after(i)
               /\ pc = "get" =>
                     /\ limited = DOMAIN responses
                     /\ requests = Len(responses)
               /\ (ended /\ limited = DOMAIN responses /\ requests = Len(responses))
                     => /\ requests = max_retries
                        /\ result = [kind |-> "RuntimeError",
                                     detail |-> "Exceeded retries"]
               /\ (ended /\ limited # DOMAIN responses) =>
                     LET last == responses[Len(responses)]
                     IN  /\ requests = Len(responses)
                         /\ is_2xx(last) <=> pc = "returned"
                         /\ is_2xx(last) => result.kind = "returned"
                         /\ ~is_2xx(last) =>
                               result = [kind |-> "RuntimeError",
                                         detail |-> "HTTP " \o ToString(last.status_code)]

\* C21: a call of _get ends, after at most max_retries requests: a 2xx
\* answer is returned at once, an answer that is neither 2xx nor 429 raises
\* at once, every 429 is followed by a wait (the Retry-After seconds when the
\* header is a digit string, else 2 to the power of the attempt) and, while
\* attempts are left, by one more request; max_retries answers of 429 in a
\* row end in the "Exceeded retries" error.
C21_GetTerminatesWithinRetries == []get_invariant /\ <>ended

\* a call with max_retries 3 answered by 429 three times, among them one
\* with a digit-string delay and a later one without: it waited the server's
\* seconds, then 2 to the power of the attempt, and raised "Exceeded retries"
C21_Witness ==
    /\ pc = "raised"
    /\ max_retries = 3
    /\ requests = 3
    /\ result.detail = "Exceeded retries"
    /\ \E i, j \in DOMAIN responses :
          /\ i < j
          /\ digit_string(responses[i].retry_after)
          /\ slept[i] = 12
          /\ ~digit_string(responses[j].retry_after)
          /\ slept[j] = pow2(j - 1)

----------------------------------------------------------------------------
(* SpecPipe: one match from its cached timeline to its fight summaries:   *)
(* extract_features_from_cache, detect_teamfights, summarize_fights       *)

MaxSkirmishes == 4      \* bursts of kills in the timeline of the match

PipeTimeStampsMs == {5000, 40000, 60000, 90000, 130000}

\* what the timeline may hold at one timestamp: an ace of either team, a kill
PipeBursts(ts) == { AceBlue(ts), AceRed(ts), <<Kill(ts, 1, 6, <<2>>)>> }

\* M1 is cached in full, no other match is cached
PipeCache ==
    [m \in CacheMatches |->
        IF m = "M1"
        THEN [timeline |-> [state |-> "ok", events |-> <<>>], match |-> TRUE]
        ELSE EmptyCache[m]]

RECURSIVE LCM(_)
LCM(S) ==
    IF S = {} THEN 1
    ELSE LET x == CHOOSE y \in S : TRUE
             l == LCM(S \ {x})
         IN  (x * l) \div GCD(x, l)

\* pd.read_csv of the combined features file.  avg_assists, a quotient in
\* the file, is kept as its numerator over the common denominator of the
\* column: StandardScaler divides a column by its own deviation, so the
\* scaled table is the same, and no other step reads the column.
read_features(rows) ==
    LET l == LCM({rows[i].avg_assists.den : i \in DOMAIN rows})
    IN  [i \in DOMAIN rows |->
           [rows[i] EXCEPT !.avg_assists = @.num * (l \div @.den)]]

InitPipe == pc = "cache" /\ cache = PipeCache /\ InitCommon

\* the timeline of M1 holds one more burst of kills, in chronological order
AddSkirmish ==
    /\ pc = "cache"
    /\ LET tl == cache["M1"].timeline.events
       IN  \E ts \in PipeTimeStampsMs : \E burst \in PipeBursts(ts) :
              /\ Cardinality({tl[i].timestamp : i \in DOMAIN tl}) < MaxSkirmishes
              /\ tl # <<>> => tl[Len(tl)].timestamp < ts
              /\ cache' = [cache EXCEPT !["M1"].timeline.events = tl \o burst]
    /\ UNCHANGED <<pc, out_dir, combined, printed, sumVars, featVars, segVars, detVars, httpVars>>

\* detect_teamfights on the combined features file, which holds windows
DetectCombined ==
    /\ pc = "features_csv"
    /\ combined.rows # <<>>
    /\ features' = read_features(combined.rows)
    /\ clustered' = run_dbscan_on_windows(features')
    /\ fights' = clusters_to_fights(clustered', DefaultScoring, 1)
    /\ detected' = fight_filter(fights')
    /\ pc' = "detected"
    /\ UNCHANGED <<max_gap, scoring, refights, fights2x, featVars, sumVars, cacheVars, httpVars>>

\* detect_teamfights on a combined features file without windows:
\* StandardScaler.fit_transform rejects an array of 0 samples
DetectCombinedRaises ==
    /\ pc = "features_csv"
    /\ combined.rows = <<>>
    /\ pc' = "error"
    /\ UNCHANGED <<featVars, segVars, detVars, sumVars, cacheVars, httpVars>>

\* summarize_fights on the fights file of detect_teamfights, or on the
\* table of all segments as clusters_to_fights returns it
SummarizeDetected ==
    /\ pc = "detected"
    /\ \E fs \in {fights, detected} :
          /\ fights_csv' = fs
          /\ summaries' = summarize_rows(fs, ClipWindowConfig, cache)
    /\ clip_cfg' = ClipWindowConfig
    /\ pc' = "summaries"
    /\ UNCHANGED <<featVars, segVars, detVars, cacheVars, httpVars>>

NextPipe ==
    \/ AddSkirmish \/ ExtractFeaturesFromCache
    \/ DetectCombined \/ DetectCombinedRaises \/ SummarizeDetected

SpecPipe == InitPipe /\ [][NextPipe]_vars

----------------------------------------------------------------------------
(* Claim about segments and their summaries, checked under SpecPipe *)

\* the clustered windows that lie within the span of the segment f
windows_within(f) ==
    {i \in DOMAIN clustered :
        /\ clustered[i].match_id = f.match_id
        /\ f.fight_start_s <= clustered[i].t_start_s
        /\ clustered[i].t_end_s <= f.fight_end_s}

\* the kills of the timeline that fall in the 30 s window of a clustered row
kills_of_window(row) ==
    LET tl == cache[row.match_id].timeline.events
    IN  {j \in DOMAIN tl :
            /\ tl[j].type = "CHAMPION_KILL"
            /\ row.t_start_s * 1000 <= tl[j].timestamp
            /\ tl[j].timestamp < row.t_end_s * 1000}

\* C22: for every segment and the timeline it was derived from, the
\* kills_in_fight of its summary is at least its kills_total: every kill
\* counted in a member window lies in [fight_start_s, fight_end_s].
C22_KillsInFightAtLeastTotal ==
    pc = "summaries" =>
        /\ Len(summaries) = Len(fights_csv)
        /\ \A i \in DOMAIN summaries :
              LET f == fights_csv[i]
                  tl == cache[f.match_id].timeline.events
                  members == {w \in windows_within(f) :
                                 clustered[w].cluster_id = f.cluster_id}
              IN  /\ summaries[i].kills_in_fight >= f.kills_total
                  /\ f.kills_total
                        = Cardinality(UNION {kills_of_window(clustered[w]) : w \in members})
                  /\ \A w \in members : \A j \in kills_of_window(clustered[w]) :
                        /\ f.fight_start_s * 1000 <= tl[j].timestamp
                        /\ tl[j].timestamp <= f.fight_end_s * 1000

\* a fight that passed the filter, with a window of another cluster inside
\* its span and a kill stamped exactly at its end: the summary counts more
\* kills than kills_total
C22_Witness ==
    /\ pc = "summaries"
    /\ Len(summaries) = Len(fights_csv)
    /\ fights_csv = detected
    /\ \E i \in DOMAIN summaries :
          LET f == fights_csv[i]
              tl == cache[f.match_id].timeline.events
          IN  /\ summaries[i].kills_in_fight > f.kills_total
              /\ \E j \in DOMAIN tl : /\ tl[j].type = "CHAMPION_KILL"
                                      /\ tl[j].timestamp = f.fight_end_s * 1000
              /\ \E w \in windows_within(f) :
                    /\ clustered[w].cluster_id # f.cluster_id
                    /\ clustered[w].kill_count > 0

====
